---- MODULE Spec2Model ----
(***************************************************************************)
(* MedicalYOLO: dataset splitting (scripts/data_processing/core/           *)
(* dataset_splitter.py, cli/split_cmd.py), the converters to YOLO labels   *)
(* (scripts/data_processing/converters/coco_to_yolo.py,                    *)
(* pascal_voc_to_yolo.py, labelme_to_yolo.py) and the dataset validator    *)
(* (utils/dataset_validation.py).                                          *)
(*                                                                         *)
(* Ratios are floats in the program; here a ratio r is the integer         *)
(* r * RatioUnit, so 1.0 is RatioUnit and the 1e-6 tolerance is Tolerance. *)
(* An image file is a positive integer (its stem); its extension is        *)
(* ExtOf(i).  A directory listing (glob) is in ascending order.            *)
(***************************************************************************)
EXTENDS Integers, Sequences, FiniteSets, TLC

\* ------------------------------------------------------------------ bounds
MaxImages == 3
\* A COCO conversion reads at most MaxFiles JSON files, which hold at most
\* MaxCategories category entries and MaxAnnotations annotations in all.
MaxFiles == 2
MaxCategories == 3
MaxAnnotations == 2
\* A tree handed to verify_dataset_config holds at most MaxChecked images and
\* MaxLines label lines in all.
MaxChecked == 2
MaxLines == 2

\* ------------------------------------------------------- program constants
RatioUnit == 10 * 1000 * 1000
Tolerance == 10

SplitNames == {"train", "val", "test"}
Seeds == {42, 7}

\* (train, val, test) triples offered to a split call.
RatioChoices ==
    { <<8000000, 1000000, 1000000>>,     \* 0.8 / 0.1 / 0.1   (the defaults)
      <<5000000, 5000000, 0>>,           \* 0.5 / 0.5 / 0.0
      <<7000000, 2000000, 1000005>>,     \* sum 1.0000005: inside the tolerance
      <<5000000, -5000000, 10000000>>,   \* 0.5 / -0.5 / 1.0  (sums to 1)
      <<0, 5000000, 5000000>>,           \* 0.0 / 0.5 / 0.5   (sums to 1)
      <<5000000, 3000000, 1000000>> }    \* sum 0.9

DefaultExtensions == <<"jpg", "jpeg", "png", "bmp", "tiff">>
ExtensionChoices == { DefaultExtensions, <<"JPG", "png">> }

\* What a label file may hold: the set of class ids of its lines.
ClassSetChoices == { {}, {0}, {0, 1} }

\* Every split call is handed an output directory of its own, empty and not
\* yet created; out describes that directory when the call returns.  Only
\* SplitIntoSame hands every call the one directory that out describes.
VARIABLES
    dataset,    \* the input: images 1..n, and the classes of each label file
    rng,        \* state of the process-wide random generator
    instances,  \* the DatasetSplitter objects constructed so far, by self.seed
    out,        \* the output directory of the most recent split call
    call,       \* the most recent split call: arguments, locals and outcome
    coco,       \* a run of CocoToYoloConverter.convert: its locals and output
    conv,       \* a run of the Pascal VOC or LabelMe convert, and its input
    verify,     \* a run of verify_dataset_config, and the tree it scans
    descriptor, \* configs/data.yaml, and the class files the split CLI finds
    uniq,       \* a run of verify_split_uniqueness, and the tree it scans
    request,    \* a call of DataConverter.convert: its type and its outcome
    logger      \* a named logger: its handlers and the log files on disk

vars == <<dataset, rng, instances, out, call, coco, conv, verify, descriptor,
          uniq, request, logger>>
splitVars == <<dataset, rng, instances, out, call, descriptor>>
toolVars == <<uniq, request, logger>>

\* The stems that have a label file.
Labelled == DOMAIN dataset.classes

\* --------------------------------------------------------------- helpers
Abs(x) == IF x < 0 THEN -x ELSE x
Min(a, b) == IF a < b THEN a ELSE b
Max(a, b) == IF a < b THEN b ELSE a
Range(s) == { s[i] : i \in 1..Len(s) }

\* Python int(num / den) for den > 0: truncation toward zero.
IntTrunc(num, den) ==
    IF num >= 0 THEN num \div den ELSE -((-num) \div den)

\* round(total_count * ratio) in the place of int(total_count * ratio)
RatioCountRounded(total, ratio) ==
    IntTrunc(2 * total * ratio + RatioUnit, 2 * RatioUnit)

\* int(total_count * ratio)
RatioCount(total, ratio) == IntTrunc(total * ratio, RatioUnit)

\* A Python slice bound i on a list of length n.
SliceIndex(i, n) == IF i < 0 THEN Max(i + n, 0) ELSE Min(i, n)

\* Python s[lo:hi] (lo, hi any integers).
Slice(s, lo, hi) ==
    LET a == SliceIndex(lo, Len(s))
        b == SliceIndex(hi, Len(s))
    IN  IF a < b THEN SubSeq(s, a + 1, b) ELSE <<>>

\* ------------------------------------------------------ random generator
\* random.seed / random.shuffle work on one process-wide generator.  The
\* generator is a small linear congruential one: what matters is that a
\* draw is a function of the state and advances it.
SeedState(seed) == seed % 8
NextRng(s) == (5 * s + 3) % 8
RandBelow(s, k) == (NextRng(s) * k) \div 8

Swap(x, i, j) == [x EXCEPT ![i] = x[j], ![j] = x[i]]

\* random.shuffle(x): for i in reversed(range(1, len(x))): j = randbelow(i+1);
\* x[i], x[j] = x[j], x[i]   (i, j are 0-based there, 1-based here)
RECURSIVE ShuffleFrom(_, _, _)
ShuffleFrom(x, i, s) ==
    IF i < 1 THEN [list |-> x, rng |-> s]
    ELSE ShuffleFrom(Swap(x, i + 1, RandBelow(s, i + 1) + 1), i - 1, NextRng(s))

Shuffle(x, s) == ShuffleFrom(x, Len(x) - 1, s)

\* ------------------------------------------------------------ file system
ExtOf(i) == IF i % 3 = 2 THEN "JPG" ELSE IF i % 3 = 0 THEN "png" ELSE "jpg"

Upper(ext) ==
    CASE ext = "jpg" -> "JPG"
      [] ext = "jpeg" -> "JPEG"
      [] ext = "png" -> "PNG"
      [] ext = "bmp" -> "BMP"
      [] ext = "tiff" -> "TIFF"
      [] OTHER -> ext

\* data_path.glob("*" + ext) over a directory holding images 1..n.
Glob(n, ext) ==
    LET Matches(i) == ExtOf(i) = ext
    IN  SelectSeq([i \in 1..n |-> i], Matches)

\* The image_files list: for each extension the glob of it, then of its
\* upper-case form.
RECURSIVE GlobAll(_, _, _)
GlobAll(n, exts, k) ==
    IF k > Len(exts) THEN <<>>
    ELSE Glob(n, exts[k]) \o Glob(n, Upper(exts[k])) \o GlobAll(n, exts, k + 1)

ImageFiles(n, exts) == GlobAll(n, exts, 1)

\* ------------------------------------------------------- split_by_ratio
RatioSumOk(r) == ~(Abs(r[1] + r[2] + r[3] - RatioUnit) > Tolerance)

TrainFiles(files, tc) == Slice(files, 0, tc)
\* image_files[train_count:val_count] in the place of
\* image_files[train_count:train_count + val_count]
ValFilesNoOffset(files, tc, vc) == Slice(files, tc, vc)

ValFiles(files, tc, vc) == Slice(files, tc, tc + vc)
TestFiles(files, tc, vc) == Slice(files, tc + vc, Len(files))

\* The locals of split_by_ratio after the shuffle and the cuts.
RatioPlan(files, s, r) ==
    LET sh == Shuffle(files, s)
        total == Len(files)
        tc == RatioCount(total, r[1])
        vc == RatioCount(total, r[2])
    IN  [ rng |-> sh.rng,
          shuffled |-> sh.list,
          total_count |-> total,
          train_count |-> tc,
          val_count |-> vc,
          test_count |-> total - tc - vc,
          lists |-> [ train |-> TrainFiles(sh.list, tc),
                      val |-> ValFiles(sh.list, tc, vc),
                      test |-> TestFiles(sh.list, tc, vc) ] ]

NonEmptySplits(lists) == { sp \in SplitNames : lists[sp] # <<>> }

\* copied_labels incremented for every image, labelled or not
CopiedLabelsEveryImage(files, labels) == Len(files)

\* copied_labels of one split: one per list entry whose label file exists.
CopiedLabels(files, labels) ==
    Cardinality({ i \in 1..Len(files) : files[i] \in labels })

\* The results dict: an entry for every split that is not empty.
RatioResults(lists, labels) ==
    [ sp \in NonEmptySplits(lists) |->
        [ images |-> Len(lists[sp]),
          labels |-> CopiedLabels(lists[sp], labels) ] ]

EmptyOut ==
    [ dirs |-> {},
      images |-> [sp \in SplitNames |-> {}],
      labels |-> [sp \in SplitNames |-> {}],
      manifest |-> [written |-> FALSE] ]

\* The tree the copy loop builds in a fresh output directory.
RatioTree(lists, labels) ==
    [ dirs |-> IF NonEmptySplits(lists) = {} THEN {}
               ELSE {"root"} \cup NonEmptySplits(lists),
      images |-> [sp \in SplitNames |-> Range(lists[sp])],
      labels |-> [sp \in SplitNames |-> Range(lists[sp]) \cap labels],
      manifest |-> [written |-> FALSE] ]

SplitInfo(seed, r, plan, results) ==
    [ written |-> TRUE,
      seed |-> seed,
      ratios |-> r,
      counts |-> [ total |-> plan.total_count, train |-> plan.train_count,
                   val |-> plan.val_count, test |-> plan.test_count ],
      results |-> results ]

NoLists == [sp \in SplitNames |-> <<>>]
NoSets == [sp \in SplitNames |-> {}]

\* A call that raised before it created or wrote anything.
Failed(op, via, seed, r, files, labels) ==
    [ op |-> op, via |-> via, status |-> "error", seed |-> seed, ratios |-> r,
      files |-> files, labels |-> labels, shuffled |-> <<>>, lists |-> NoLists,
      sets |-> NoSets, results |-> <<>>, io |-> FALSE, yaml |-> FALSE ]

\* DatasetSplitter.split_by_ratio on the instance with self.seed = seed, with
\* data_dir the image directory and labels_dir the label directory of dataset.
\* g is the generator state the call finds.  The call's effect on the output
\* directory, its record and the generator state it leaves.
RatioOutcome(via, seed, g, exts, r) ==
    LET files == ImageFiles(dataset.n, exts)
    IN  IF ~RatioSumOk(r) \/ files = <<>>
        THEN [ call |-> Failed("ratio", via, seed, r, files, Labelled),
               out |-> EmptyOut, rng |-> g ]
        ELSE LET plan == RatioPlan(files, g, r)
                 results == RatioResults(plan.lists, Labelled)
                 tree == RatioTree(plan.lists, Labelled)
             IN  [ call |-> [ op |-> "ratio", via |-> via, status |-> "ok",
                              seed |-> seed, ratios |-> r, files |-> files,
                              labels |-> Labelled, shuffled |-> plan.shuffled,
                              lists |-> plan.lists,
                              sets |-> [sp \in SplitNames |->
                                          Range(plan.lists[sp])],
                              results |-> results, io |-> TRUE,
                              yaml |-> FALSE ],
                   out |-> [ tree EXCEPT !.manifest =
                                           SplitInfo(seed, r, plan, results) ],
                   rng |-> plan.rng ]

\* DatasetSplitter(seed): a new instance; seeds the process-wide generator.
NewSplitter ==
    \E seed \in Seeds :
        /\ instances' = instances \cup {seed}
        /\ rng' = SeedState(seed)
        /\ UNCHANGED <<dataset, out, call, descriptor, coco, conv, verify,
                       toolVars>>

SplitByRatio ==
    \E seed \in instances, exts \in ExtensionChoices, r \in RatioChoices :
    \E o \in {RatioOutcome("lib", seed, rng, exts, r)} :
        /\ call' = o.call
        /\ out' = o.out
        /\ rng' = o.rng
        /\ UNCHANGED <<dataset, instances, descriptor, coco, conv, verify,
                       toolVars>>

\* The output directory after a call has copied its tree into it: mkdir
\* with exist_ok keeps what is there, copy2 adds or overwrites a file, and
\* split_info.json is written anew.
CopiedInto(old, new) ==
    [ dirs |-> old.dirs \cup new.dirs,
      images |-> [sp \in SplitNames |-> old.images[sp] \cup new.images[sp]],
      labels |-> [sp \in SplitNames |-> old.labels[sp] \cup new.labels[sp]],
      manifest |-> new.manifest ]

\* split_by_ratio into the output directory of the calls before it.
SplitIntoSame ==
    \E seed \in instances, r \in RatioChoices :
    \E o \in {RatioOutcome("lib", seed, rng, DefaultExtensions, r)} :
        /\ call' = o.call
        /\ out' = IF o.call.status = "ok" THEN CopiedInto(out, o.out) ELSE out
        /\ rng' = o.rng
        /\ UNCHANGED <<dataset, instances, descriptor, coco, conv, verify,
                       toolVars>>

\* ------------------------------------------------------------ split_cmd.py
\* A class file as read_classes_file finds it: absent, unreadable (the read
\* raises), or holding the names given, possibly none.
ClassFiles(names) ==
    { [exists |-> FALSE, readable |-> FALSE, names |-> <<>>],
      [exists |-> TRUE, readable |-> FALSE, names |-> <<>>],
      [exists |-> TRUE, readable |-> TRUE, names |-> <<>>],
      [exists |-> TRUE, readable |-> TRUE, names |-> names] }
NoClassFile == [exists |-> FALSE, readable |-> FALSE, names |-> <<>>]

\* The file of --classes, <output>/classes.txt and <output>/labels/classes.txt
\* as main() finds them, and configs/data.yaml.
NoDescriptor ==
    [ classes |-> NoClassFile, root |-> NoClassFile, labels |-> NoClassFile,
      written |-> FALSE, nc |-> 0, names |-> <<>> ]

FallbackNames == <<"class_0", "class_1">>

\* a candidate that holds no name is taken as it is
DiscoveredNamesAsRead(file) == file.names

\* The candidate that exists is read; when it holds no name the default
\* names are used.
DiscoveredNames(file) ==
    IF file.names # <<>> THEN file.names ELSE FallbackNames

\* class_names of main(): the names of the --classes file when it can be
\* read and holds any; otherwise those of the first candidate that exists;
\* otherwise the default names.  Reading a candidate is not guarded: ok is
\* FALSE when it raises.
ClassNamesOf(d) ==
    IF d.classes.exists /\ d.classes.readable /\ d.classes.names # <<>>
    THEN [ok |-> TRUE, names |-> d.classes.names]
    ELSE IF d.root.exists
    THEN [ok |-> d.root.readable, names |-> DiscoveredNames(d.root)]
    ELSE IF d.labels.exists
    THEN [ok |-> d.labels.readable, names |-> DiscoveredNames(d.labels)]
    ELSE [ok |-> TRUE, names |-> FallbackNames]

\* write_data_yaml(output_dir, class_names)
WriteDataYaml(d, class_names) ==
    [d EXCEPT !.written = TRUE, !.nc = Len(class_names), !.names = class_names]

\* validate_ratios(train, val, test)
ValidateRatios(r) ==
    /\ ~(Abs(r[1] + r[2] + r[3] - RatioUnit) > Tolerance)
    /\ ~(r[1] <= 0 \/ r[2] < 0 \/ r[3] < 0)

\* main() without --by-class, a process of its own: it validates the ratios,
\* constructs DatasetSplitter(seed) (seeding its own generator), splits, then
\* writes configs/data.yaml and removes the label directory.  An exception
\* of the split or of reading a discovered class file ends it with exit
\* status 1 before those two steps.
CliSplitRatio ==
    \E seed \in Seeds, exts \in ExtensionChoices, r \in RatioChoices :
        /\ IF ~ValidateRatios(r)
           THEN /\ call' = Failed("ratio", "cli", seed, r, <<>>, Labelled)
                /\ out' = EmptyOut
                /\ dataset' = dataset
                /\ descriptor' = descriptor
           ELSE \E o \in {RatioOutcome("cli", seed, SeedState(seed), exts, r)},
                   class_names \in {ClassNamesOf(descriptor)} :
                \E done \in {o.call.status = "ok" /\ class_names.ok} :
                    /\ call' = [o.call EXCEPT !.yaml = done]
                    /\ out' = o.out
                    /\ dataset' = IF done
                                  THEN [dataset EXCEPT !.classes = <<>>]
                                  ELSE dataset
                    /\ descriptor' =
                          IF done
                          THEN WriteDataYaml(descriptor, class_names.names)
                          ELSE descriptor
        /\ UNCHANGED <<rng, instances, coco, conv, verify, toolVars>>

\* -------------------------------------------------------- split_by_class
\* A set of integers in ascending order.
RECURSIVE Ascending(_)
Ascending(S) ==
    IF S = {} THEN <<>>
    ELSE LET m == CHOOSE x \in S : \A y \in S : x <= y
         IN  <<m>> \o Ascending(S \ {m})

\* The keys of class_files in insertion order, after the label files of the
\* stems stems[k..] were read: a class enters at the first file that holds it.
RECURSIVE ClassOrder(_, _, _)
ClassOrder(stems, k, order) ==
    IF k > Len(stems) THEN order
    ELSE ClassOrder(stems, k + 1,
                    order \o Ascending(dataset.classes[stems[k]] \ Range(order)))

\* class_files[c]: the stems of the label files that hold class c, in the
\* order of the directory listing.
ClassFileList(stems, c) ==
    LET Holds(f) == c \in dataset.classes[f]
    IN  SelectSeq(stems, Holds)

\* The loop over class_files.items(): each class shuffles its own list with
\* the process-wide generator, cuts it, and adds its three parts to the sets.
RECURSIVE ClassLoop(_, _, _, _, _)
ClassLoop(stems, order, k, r, acc) ==
    IF k > Len(order) THEN acc
    ELSE LET sh == CHOOSE x \in {Shuffle(ClassFileList(stems, order[k]), acc.rng)}
                     : TRUE
             total == Len(sh.list)
             tc == RatioCount(total, r[1])
             vc == RatioCount(total, r[2])
             tr == Range(TrainFiles(sh.list, tc))
             va == Range(ValFiles(sh.list, tc, vc))
             te == Range(TestFiles(sh.list, tc, vc))
         IN  ClassLoop(stems, order, k + 1, r,
                 [ rng |-> sh.rng,
                   sets |-> [ train |-> acc.sets.train \cup tr,
                              val |-> acc.sets.val \cup va,
                              test |-> acc.sets.test \cup te ],
                   results |-> acc.results @@
                       (order[k] :> [ total |-> total,
                                      train |-> Cardinality(tr),
                                      val |-> Cardinality(va),
                                      test |-> Cardinality(te) ]) ])

\* _copy_split_files looks for <stem>.jpg, .jpeg, .png, .bmp only.
CopyExtensions == {"jpg", "jpeg", "png", "bmp"}

\* The tree _copy_split_files builds in a fresh output directory: the image
\* of a stem when one with a listed extension exists, and its label file.
ClassTree(sets) ==
    [ dirs |-> IF \A sp \in SplitNames : sets[sp] = {} THEN {}
               ELSE {"root"} \cup { sp \in SplitNames : sets[sp] # {} },
      images |-> [sp \in SplitNames |->
                    { f \in sets[sp] : f \in 1..dataset.n
                                          /\ ExtOf(f) \in CopyExtensions }],
      labels |-> [sp \in SplitNames |-> sets[sp]],
      manifest |-> [written |-> FALSE] ]

\* DatasetSplitter.split_by_class on the instance with self.seed = seed, the
\* generator in state g, with data_dir the dataset directory.
ClassOutcome(via, seed, g, r) ==
    LET stems == Ascending(Labelled)
        order == ClassOrder(stems, 1, <<>>)
    IN  IF order = <<>>
        THEN [ call |-> Failed("class", via, seed, r, stems, Labelled),
               out |-> EmptyOut, rng |-> g ]
        ELSE LET done == CHOOSE x \in
                    { ClassLoop(stems, order, 1, r,
                          [ rng |-> g, sets |-> NoSets, results |-> <<>> ]) }
                    : TRUE
             IN  [ call |-> [ op |-> "class", via |-> via, status |-> "ok",
                              seed |-> seed, ratios |-> r, files |-> stems,
                              labels |-> Labelled, shuffled |-> <<>>,
                              lists |-> NoLists, sets |-> done.sets,
                              results |-> done.results, io |-> TRUE,
                              yaml |-> FALSE ],
                   out |-> ClassTree(done.sets),
                   rng |-> done.rng ]

SplitByClass ==
    \E seed \in instances, r \in RatioChoices :
    \E o \in {ClassOutcome("lib", seed, rng, r)} :
        /\ call' = o.call
        /\ out' = o.out
        /\ rng' = o.rng
        /\ UNCHANGED <<dataset, instances, descriptor, coco, conv, verify,
                       toolVars>>

\* main() with --by-class: as CliSplitRatio, with split_by_class.
CliSplitClass ==
    \E seed \in Seeds, r \in RatioChoices :
        /\ IF ~ValidateRatios(r)
           THEN /\ call' = Failed("class", "cli", seed, r, <<>>, Labelled)
                /\ out' = EmptyOut
                /\ dataset' = dataset
                /\ descriptor' = descriptor
           ELSE \E o \in {ClassOutcome("cli", seed, SeedState(seed), r)},
                   class_names \in {ClassNamesOf(descriptor)} :
                \E done \in {o.call.status = "ok" /\ class_names.ok} :
                    /\ call' = [o.call EXCEPT !.yaml = done]
                    /\ out' = o.out
                    /\ dataset' = IF done
                                  THEN [dataset EXCEPT !.classes = <<>>]
                                  ELSE dataset
                    /\ descriptor' =
                          IF done
                          THEN WriteDataYaml(descriptor, class_names.names)
                          ELSE descriptor
        /\ UNCHANGED <<rng, instances, coco, conv, verify, toolVars>>

\* ------------------------------------------------------- coco_to_yolo.py
\* Category entries a file may hold: one id under two names, one name under
\* two ids.
CocoCategories ==
    { [id |-> 1, name |-> "tumor"], [id |-> 1, name |-> "cyst"],
      [id |-> 2, name |-> "tumor"] }
CocoBox == <<10, 10, 20, 20>>
\* Annotations of image img: of category 1, or of a category 3 no file has.
CocoAnnotations(img) ==
    { [image_id |-> img, category_id |-> c, bbox |-> CocoBox] : c \in {1, 3} }

SeqsUpTo(S, n) == UNION { [1..k -> S] : k \in 0..n }

\* The JSON files the directory may hold as its k-th file: one image, named
\* after the file and numbered 1 or k, up to nc category entries and up to
\* na annotations of that image.
CocoFiles(k, nc, na) ==
    UNION { { [ ok |-> TRUE,
                images |-> << [id |-> img, file_name |-> k,
                               width |-> 100, height |-> 100] >>,
                categories |-> cats, annotations |-> anns ]
              : cats \in SeqsUpTo(CocoCategories, nc),
                anns \in SeqsUpTo(CocoAnnotations(img), na) }
            : img \in {1, k} }

\* A file json.load cannot parse.
BadFile == [ ok |-> FALSE, images |-> <<>>, categories |-> <<>>,
             annotations |-> <<>> ]

\* The class_mapping argument of convert: none (None or {}), or a dict given
\* as its items in order.
ClassMappingChoices ==
    { <<>>, << [name |-> "cyst", id |-> 0], [name |-> "tumor", id |-> 1] >> }

CocoIdle ==
    [ pc |-> "idle", total |-> 0, loaded |-> 0, class_mapping |-> <<>>,
      category_id_mapping |-> <<>>, next_category_id |-> 0,
      categories |-> <<>>, images |-> <<>>, annotations |-> <<>>,
      file |-> BadFile, catsRead |-> 0, annsRead |-> 0,
      out_dir |-> FALSE, temp |-> FALSE, labels |-> <<>>,
      classes_txt |-> <<>>, converted |-> 0, converted_label_files |-> 0,
      discarded |-> 0 ]

\* The category loop of one file, from its k-th entry on: a name not yet in
\* category_id_mapping gets next_category_id and is appended.
RECURSIVE MergeCategories(_, _, _)
MergeCategoriesNoDedup(m, cats, k) ==
    IF k > Len(cats) THEN m
    ELSE MergeCategories(
             [ mapping |-> IF cats[k].name \in DOMAIN m.mapping
                           THEN [m.mapping EXCEPT ![cats[k].name] = m.next]
                           ELSE m.mapping @@ (cats[k].name :> m.next),
               categories |-> Append(m.categories,
                                     [id |-> m.next, name |-> cats[k].name]),
               next |-> m.next + 1 ],
             cats, k + 1)

MergeCategories(m, cats, k) ==
    IF k > Len(cats) THEN m
    ELSE IF cats[k].name \in DOMAIN m.mapping
    THEN MergeCategories(m, cats, k + 1)
    ELSE MergeCategories(
             [ mapping |-> m.mapping @@ (cats[k].name :> m.next),
               categories |-> Append(m.categories,
                                     [id |-> m.next, name |-> cats[k].name]),
               next |-> m.next + 1 ],
             cats, k + 1)

\* cat_name of an annotation: the name of the first category of the file
\* with the annotation's category_id, "" (None) when there is none.
RECURSIVE CategoryName(_, _, _)
CategoryName(cats, id, k) ==
    IF k > Len(cats) THEN ""
    ELSE IF cats[k].id = id THEN cats[k].name
    ELSE CategoryName(cats, id, k + 1)

\* ann['category_id'] left as it was read
RewrittenIdUnchanged(mapping, name, original) == original

\* ann['category_id'] = category_id_mapping[cat_name]
RewrittenId(mapping, name, original) == mapping[name]

\* The annotation loop of one file, from its k-th annotation on.  file and
\* original record where a merged annotation came from.
RECURSIVE MergeAnnotations(_, _, _, _, _)
MergeAnnotations(merged, data, mapping, file, k) ==
    IF k > Len(data.annotations) THEN merged
    ELSE LET ann == data.annotations[k]
             name == CategoryName(data.categories, ann.category_id, 1)
         IN  IF name # ""
             THEN MergeAnnotations(
                      Append(merged,
                             [ image_id |-> ann.image_id,
                               category_id |->
                                   RewrittenId(mapping, name, ann.category_id),
                               bbox |-> ann.bbox,
                               file |-> file,
                               original |-> ann.category_id ]),
                      data, mapping, file, k + 1)
             ELSE MergeAnnotations(merged, data, mapping, file, k + 1)

\* _convert_bbox_to_yolo with each value clamped to [0, 1]
ConvertBboxToYoloClamped(bbox, w, h) ==
    LET Clamp(v) == IF v < 0 THEN 0 ELSE IF v > 1000000 THEN 1000000 ELSE v
    IN  << Clamp(((2 * bbox[1] + bbox[3]) * 1000000) \div (2 * w)),
           Clamp(((2 * bbox[2] + bbox[4]) * 1000000) \div (2 * h)),
           Clamp((bbox[3] * 1000000) \div w),
           Clamp((bbox[4] * 1000000) \div h) >>

\* _convert_bbox_to_yolo, its four values in millionths.
ConvertBboxToYolo(bbox, w, h) ==
    << ((2 * bbox[1] + bbox[3]) * 1000000) \div (2 * w),
       ((2 * bbox[2] + bbox[4]) * 1000000) \div (2 * h),
       (bbox[3] * 1000000) \div w,
       (bbox[4] * 1000000) \div h >>

\* image_info = {img['id']: img for img in images}: of two images with one
\* id the later stays.
ImageInfo(images) ==
    [ id \in { images[i].id : i \in 1..Len(images) } |->
        images[CHOOSE i \in 1..Len(images) :
                 /\ images[i].id = id
                 /\ \A j \in 1..Len(images) : images[j].id = id => j <= i] ]

\* The label files after the annotations k.. were written: a line is appended
\* to the file of the annotation's image; an unknown image_id is skipped.
RECURSIVE WriteLines(_, _, _, _)
WriteLines(files, anns, info, k) ==
    IF k > Len(anns) THEN files
    ELSE IF anns[k].image_id \notin DOMAIN info
    THEN WriteLines(files, anns, info, k + 1)
    ELSE LET img == info[anns[k].image_id]
             line == [ class_id |-> anns[k].category_id,
                       box |-> ConvertBboxToYolo(anns[k].bbox, img.width,
                                                 img.height),
                       annotation |-> k ]
             stem == img.file_name
         IN  WriteLines(
                 IF stem \in DOMAIN files
                 THEN [files EXCEPT ![stem] = Append(@, line)]
                 ELSE files @@ (stem :> <<line>>),
                 anns, info, k + 1)

Lines(files) == UNION { Range(files[f]) : f \in DOMAIN files }

\* self.class_names: the keys of class_mapping when one is given, otherwise
\* the merged category names.
ClassNames(cm, cats) ==
    IF cm # <<>> THEN [ i \in 1..Len(cm) |-> cm[i].name ]
    ELSE [ i \in 1..Len(cats) |-> cats[i].name ]

\* convert() up to the loop over the JSON files: validate_input fails when
\* the directory holds no JSON file; otherwise the output and the temporary
\* directory are created.
CocoBegin ==
    \E total \in 0..MaxFiles, cm \in ClassMappingChoices :
        coco' = IF total = 0
                THEN [coco EXCEPT !.pc = "failed", !.class_mapping = cm]
                ELSE [coco EXCEPT !.pc = "loading", !.total = total,
                                  !.class_mapping = cm, !.out_dir = TRUE,
                                  !.temp = TRUE]

CocoStart ==
    /\ coco.pc = "idle"
    /\ CocoBegin
    /\ UNCHANGED <<splitVars, conv, verify, toolVars>>

\* One iteration of the loop of _load_coco_annotations.
LoadGood(data) ==
    LET m == MergeCategories(
                 [ mapping |-> coco.category_id_mapping,
                   categories |-> coco.categories,
                   next |-> coco.next_category_id ],
                 data.categories, 1)
    IN  coco' = [coco EXCEPT
            !.loaded = @ + 1,
            !.category_id_mapping = m.mapping,
            !.categories = m.categories,
            !.next_category_id = m.next,
            !.images = @ \o data.images,
            !.annotations = MergeAnnotations(@, data, m.mapping,
                                             coco.loaded + 1, 1),
            !.file = data,
            !.catsRead = @ + Len(data.categories),
            !.annsRead = @ + Len(data.annotations)]

\* json.load raises and the temporary directory is left behind
LoadBadKeepsTemp ==
    coco' = [coco EXCEPT !.pc = "failed", !.file = BadFile]

\* json.load raises: _load_coco_annotations re-raises, convert removes the
\* temporary directory and re-raises.
LoadBad ==
    coco' = [coco EXCEPT !.pc = "failed", !.file = BadFile, !.temp = FALSE]

LoadFile ==
    /\ coco.pc = "loading"
    /\ coco.loaded < coco.total
    /\ \/ \E data \in CocoFiles(coco.loaded + 1,
                                  MaxCategories - coco.catsRead,
                                  MaxAnnotations - coco.annsRead) :
              LoadGood(data)
       \/ LoadBad
    /\ UNCHANGED <<splitVars, conv, verify, toolVars>>

\* The first annotation whose line cannot be computed: its image has the
\* width or the height 0 and the division raises ZeroDivisionError.  0 when
\* there is none.
FirstFailing(anns, info) ==
    LET failing == { k \in 1..Len(anns) :
                       /\ anns[k].image_id \in DOMAIN info
                       /\ (info[anns[k].image_id].width = 0
                           \/ info[anns[k].image_id].height = 0) }
    IN  IF failing = {} THEN 0
        ELSE CHOOSE k \in failing : \A j \in failing : k <= j

\* The rest of convert(): the label lines and classes.txt.  An exception in
\* the loop is caught by convert, which removes the temporary directory with
\* the label files written so far (discarded counts their lines) and
\* re-raises.
WriteLabels ==
    /\ coco.pc = "loading"
    /\ coco.loaded = coco.total
    /\ \E info \in { ImageInfo(coco.images) } :
       \E failed \in { FirstFailing(coco.annotations, info) } :
          IF failed = 0
          THEN \E files \in { WriteLines(<<>>, coco.annotations, info, 1) } :
                 coco' = [coco EXCEPT
                     !.pc = "done",
                     !.labels = files,
                     !.classes_txt = ClassNames(coco.class_mapping,
                                                coco.categories),
                     !.converted = Cardinality(Lines(files)),
                     !.converted_label_files = Cardinality(DOMAIN files)]
          ELSE \E files \in { WriteLines(<<>>,
                                  SubSeq(coco.annotations, 1, failed - 1),
                                  info, 1) } :
                 coco' = [coco EXCEPT
                     !.pc = "failed",
                     !.temp = FALSE,
                     !.discarded = Cardinality(Lines(files))]
    /\ UNCHANGED <<splitVars, conv, verify, toolVars>>

\* The files of a conversion whose boxes and image sizes vary: the k-th file
\* holds the image k, the category tumor and one annotation of the image.
BoxChoices ==
    { <<10, 10, 20, 20>>, <<50, 25, 50, 25>>, <<90, 90, 30, 30>>,
      <<-30, 0, 20, 10>> }
BoxSizes == { <<100, 100>>, <<200, 100>>, <<0, 100>> }
BoxFiles(k) ==
    { [ ok |-> TRUE,
        images |-> << [id |-> k, file_name |-> k,
                       width |-> size[1], height |-> size[2]] >>,
        categories |-> << [id |-> 1, name |-> "tumor"] >>,
        annotations |-> << [image_id |-> k, category_id |-> 1,
                            bbox |-> box] >> ]
      : size \in BoxSizes, box \in BoxChoices }

\* One iteration of the loop of _load_coco_annotations, over these files.
LoadBoxFile ==
    /\ coco.pc = "loading"
    /\ coco.loaded < coco.total
    /\ \/ \E data \in BoxFiles(coco.loaded + 1) : LoadGood(data)
       \/ LoadBad
    /\ UNCHANGED <<splitVars, conv, verify, toolVars>>

\* ------------------------------- pascal_voc_to_yolo.py, labelme_to_yolo.py
\* The two converters read one annotation file per image.  The k-th file of
\* the directory listing has the stem k.  LabelMe runs are in the default
\* output_format 'detection'; the coordinates of a line are left out.
ConvKinds == {"voc", "labelme"}
\* sorted() of the labels that occur
LabelOrder == <<"cyst", "tumor">>
Labels == Range(LabelOrder)

\* An <object> of a VOC file: its name and its difficult flag.
VocAnnotations == { [label |-> l, difficult |-> d] : l \in Labels, d \in {0, 1} }
\* A shape of a LabelMe file: a rectangle, drawn with 2 points or, wrongly,
\* with 3.
LabelmeAnnotations ==
    { [label |-> l, shape_type |-> "rectangle", points |-> n]
        : l \in Labels, n \in {2, 3} }
AnnotationsOf(kind) ==
    IF kind = "voc" THEN VocAnnotations ELSE LabelmeAnnotations

\* A file that cannot be parsed or lacks the image size.
UnparsableFile == [ok |-> FALSE, annotations |-> <<>>]

\* The directories of at most nf files with at most na annotations in all.
RECURSIVE ConvDirs(_, _, _)
ConvDirs(kind, nf, na) ==
    IF nf = 0 THEN { <<>> }
    ELSE { <<>> } \cup
         UNION { { <<f>> \o rest : rest \in ConvDirs(kind, nf - 1,
                                       na - Len(f.annotations)) }
                 : f \in { UnparsableFile } \cup
                         { [ok |-> TRUE, annotations |-> a]
                             : a \in SeqsUpTo(AnnotationsOf(kind), na) } }

\* The class_mapping argument: none, a dict whose key order is not its id
\* order, a dict without the label "cyst".
ConvMappingChoices ==
    { <<>>,
      << [name |-> "tumor", id |-> 1], [name |-> "cyst", id |-> 0] >>,
      << [name |-> "tumor", id |-> 0] >> }

\* A dict given as its items in order, as a function of its keys.
AsDict(items) ==
    [ name \in { items[i].name : i \in 1..Len(items) } |->
        items[CHOOSE i \in 1..Len(items) : items[i].name = name].id ]

ConvIdle(kind, dir) ==
    [ pc |-> "idle", kind |-> kind, dir |-> dir, class_mapping |-> <<>>,
      include_difficult |-> FALSE, category_mapping |-> <<>>,
      class_names |-> <<>>, next |-> 1, out_dir |-> FALSE, labels |-> <<>>,
      converted_files |-> <<>>, converted_annotations |-> 0,
      skipped_annotations |-> 0, classes_txt |-> <<>>, classes_file |-> FALSE ]

ValidateInputSkipped(dir) == TRUE

\* validate_input: the directory exists, holds a file of the format, and the
\* first of them can be parsed and has the required fields.
ValidateInput(dir) == dir # <<>> /\ dir[1].ok

\* The first pass: the labels of the files that can be parsed.
AllClasses(dir) ==
    UNION { { dir[i].annotations[k].label : k \in 1..Len(dir[i].annotations) }
            : i \in { j \in 1..Len(dir) : dir[j].ok } }

\* {class_name: idx for idx, class_name in enumerate(sorted(all_classes))}
AutoMapping(classes) ==
    LET Occurs(l) == l \in classes
        sorted == SelectSeq(LabelOrder, Occurs)
    IN  [ i \in 1..Len(sorted) |-> [name |-> sorted[i], id |-> i - 1] ]

\* category_mapping, as its items in order: class_mapping when it is given
\* and not empty, otherwise the mapping derived from the labels.
CategoryMapping(class_mapping, classes) ==
    IF class_mapping # <<>> THEN class_mapping ELSE AutoMapping(classes)

\* list(category_mapping.keys())
KeysOf(items) == [ i \in 1..Len(items) |-> items[i].name ]

\* One annotation in the loop of the VOC convert.  acc holds the lines of the
\* file so far and the two counters.
VocAnnotation(acc, ann, k, mapping, include_difficult) ==
    IF ~include_difficult /\ ann.difficult # 0
    THEN [acc EXCEPT !.skipped = @ + 1]
    ELSE IF ann.label \notin DOMAIN mapping
    THEN acc
    ELSE [acc EXCEPT
             !.lines = Append(@, [ class_id |-> mapping[ann.label],
                                   label |-> ann.label, annotation |-> k ]),
             !.converted = @ + 1]

\* One annotation in the loop of the LabelMe convert: _rectangle_to_bbox
\* raises for a rectangle that has not 2 points, which is caught and counted.
LabelmeAnnotation(acc, ann, k, mapping) ==
    IF ann.label \notin DOMAIN mapping
    THEN [acc EXCEPT !.skipped = @ + 1]
    ELSE IF ann.shape_type = "rectangle" /\ ann.points # 2
    THEN [acc EXCEPT !.skipped = @ + 1]
    ELSE [acc EXCEPT
             !.lines = Append(@, [ class_id |-> mapping[ann.label],
                                   label |-> ann.label, annotation |-> k ]),
             !.converted = @ + 1]

\* The annotation loop over one parsed file, from its k-th annotation on.
RECURSIVE ConvertAnnotations(_, _, _, _, _, _)
ConvertAnnotations(acc, kind, anns, k, mapping, include_difficult) ==
    IF k > Len(anns) THEN acc
    ELSE ConvertAnnotations(
             IF kind = "voc"
             THEN VocAnnotation(acc, anns[k], k, mapping, include_difficult)
             ELSE LabelmeAnnotation(acc, anns[k], k, mapping),
             kind, anns, k + 1, mapping, include_difficult)

\* convert() up to its second loop: a failed validate_input raises before
\* anything is created; otherwise the output directory is made, the labels
\* are collected and the mapping is fixed.
ConvStart ==
    /\ conv.pc = "idle"
    /\ \E cm \in ConvMappingChoices, inc \in BOOLEAN :
          /\ conv.kind = "labelme" => ~inc
          /\ conv' =
               IF ~ValidateInput(conv.dir)
               THEN [conv EXCEPT !.pc = "failed", !.class_mapping = cm,
                                 !.include_difficult = inc]
               ELSE LET items == CategoryMapping(cm, AllClasses(conv.dir))
                    IN  [conv EXCEPT
                            !.pc = "converting", !.class_mapping = cm,
                            !.include_difficult = inc, !.out_dir = TRUE,
                            !.category_mapping = AsDict(items),
                            !.class_names = KeysOf(items)]
    /\ UNCHANGED <<splitVars, coco, verify, toolVars>>

\* One iteration of the second loop: a file that cannot be parsed is logged
\* and passed over; a parsed file gets its label file, empty when no line
\* was made for it.
ConvFile ==
    /\ conv.pc = "converting"
    /\ conv.next <= Len(conv.dir)
    /\ LET i == conv.next
           f == conv.dir[i]
           r == ConvertAnnotations(
                    [ lines |-> <<>>,
                      converted |-> conv.converted_annotations,
                      skipped |-> conv.skipped_annotations ],
                    conv.kind, f.annotations, 1, conv.category_mapping,
                    conv.include_difficult)
       IN  conv' = IF ~f.ok
                   THEN [conv EXCEPT !.next = i + 1]
                   ELSE [conv EXCEPT
                            !.next = i + 1,
                            !.labels = @ @@ (i :> r.lines),
                            !.converted_files = Append(@, i),
                            !.converted_annotations = r.converted,
                            !.skipped_annotations = r.skipped]
    /\ UNCHANGED <<splitVars, coco, verify, toolVars>>

\* The end of convert(): classes.txt and the returned result.
ConvFinish ==
    /\ conv.pc = "converting"
    /\ conv.next > Len(conv.dir)
    /\ conv' = [conv EXCEPT !.pc = "done", !.classes_txt = conv.class_names,
                            !.classes_file = TRUE]
    /\ UNCHANGED <<splitVars, coco, verify, toolVars>>

\* ---------------------------------------------------- dataset_validation.py
\* A label line is the sequence of its tokens (line.split()).  int() and
\* float() are tables over the tokens that occur; a coordinate is held in
\* millionths.  A token outside a table makes the conversion raise.
IntValue == ("0" :> 0) @@ ("1" :> 1) @@ ("-1" :> -1)
FloatValue ==
    ("0" :> 0) @@ ("1" :> 1000000) @@ ("-1" :> -1000000) @@
    ("1.0" :> 1000000) @@ ("0.5" :> 500000) @@ ("0.2" :> 200000) @@
    ("1.5" :> 1500000) @@ ("-0.1" :> -100000)
One == 1000000

\* all(0.0 <= v <= 1.0 for v in coords)
CoordsNotNegative(coords) ==
    \A i \in 1..Len(coords) : 0 <= coords[i]
CoordsInUnit(coords) ==
    \A i \in 1..Len(coords) : 0 <= coords[i] /\ coords[i] <= One

\* The body of the loop over the lines of a label file, for one line: the
\* error message it appends to invalid_data, as <<kind>>, or <<>> for none.
\* nc is <<n>>, or <<>> when the descriptor has no nc (None).
CheckLine(parts, nc, task_type) ==
    IF task_type = "detection" /\ Len(parts) # 5
    THEN <<"format">>
    ELSE IF task_type = "segmentation"
            /\ (Len(parts) < 7 \/ (Len(parts) - 1) % 2 # 0)
    THEN <<"format">>
    ELSE IF parts[1] \notin DOMAIN IntValue
    THEN <<"parse">>                       \* int(parts[0]) raises
    ELSE IF IntValue[parts[1]] < 0
    THEN <<"class_range">>
    ELSE IF nc = <<>>
    THEN <<"parse">>                       \* class_id >= None raises
    ELSE IF IntValue[parts[1]] >= nc[1]
    THEN <<"class_range">>
    ELSE IF \E i \in 2..Len(parts) : parts[i] \notin DOMAIN FloatValue
    THEN <<"parse">>                       \* float(...) raises
    ELSE IF ~CoordsInUnit([ i \in 1..(Len(parts) - 1) |->
                              FloatValue[parts[i + 1]] ])
    THEN <<"coords">>
    ELSE <<>>

\* The suffixes verify_dataset_config takes for images.
ValidatorSuffixes == {"jpg", "jpeg", "png"}
\* random.sample(img_files, 20) is drawn when SAMPLE mode finds more files
SampleSize == 20

Record(image_path, label_path, kind) ==
    [image_path |-> image_path, label_path |-> label_path,
     error_message |-> kind]

\* The records of the lines k.. of one label file.
RECURSIVE CheckLines(_, _, _, _, _, _)
CheckLines(lines, k, nc, task_type, split, i) ==
    IF k > Len(lines) THEN <<>>
    ELSE LET e == CheckLine(lines[k], nc, task_type)
         IN  (IF e = <<>> THEN <<>>
              ELSE << Record(<<split, i>>, <<split, i>>, e[1]) >>)
             \o CheckLines(lines, k + 1, nc, task_type, split, i)

\* The body of the loop over check_files, for the image i of the split.
CheckImage(img, nc, task_type, split, i) ==
    IF img.label.state = "missing"
    THEN << Record(<<split, i>>, <<split, i>>, "no_label") >>
    ELSE IF img.label.state = "unreadable"
    THEN << Record(<<split, i>>, <<split, i>>, "read_failed") >>
    ELSE CheckLines(img.label.lines, 1, nc, task_type, split, i)

RECURSIVE CheckImages(_, _, _, _, _, _)
CheckImages(images, files, k, nc, task_type, split) ==
    IF k > Len(files) THEN <<>>
    ELSE CheckImage(images[files[k]], nc, task_type, split, files[k])
         \o CheckImages(images, files, k + 1, nc, task_type, split)

\* sorted(p for p in img_dir.iterdir() if p.suffix.lower() in [...]), as the
\* positions in the directory listing
ImgFiles(images) ==
    LET IsImage(i) == images[i].ext \in ValidatorSuffixes
    IN  SelectSeq([ i \in 1..Len(images) |-> i ], IsImage)

\* The subsequences of s with n elements.
SubSeqsOfLen(s, n) ==
    { t \in [1..n -> Range(s)] :
        \A a, b \in 1..n : a < b =>
            \E x, y \in 1..Len(s) : x < y /\ s[x] = t[a] /\ s[y] = t[b] }

\* check_files: all of img_files, or in SAMPLE mode 20 of more than 20.
CheckFiles(img_files, mode) ==
    IF mode = "SAMPLE" /\ Len(img_files) > SampleSize
    THEN SubSeqsOfLen(img_files, SampleSize)
    ELSE { img_files }

SplitOrder == <<"train", "val", "test">>

\* The descriptor file: one that cannot be opened or parsed, one that
\* yaml.safe_load turns into None (empty) or into a list, or a mapping.
\* nc and names are <<value>>, or <<>> when the key is missing.
YamlShapes ==
    { [nc |-> <<1>>, names |-> << <<"cyst">> >>],
      [nc |-> <<2>>, names |-> << <<"cyst">> >>],
      [nc |-> <<>>, names |-> <<>>] }
YamlMappings == { [kind |-> "mapping", nc |-> y.nc, names |-> y.names]
                    : y \in YamlShapes }
YamlOthers == { [kind |-> k, nc |-> <<>>, names |-> <<>>]
                  : k \in {"unreadable", "empty", "list"} }

\* The lines a label file of a scanned tree holds.
TreeLines == { <<"0", "0.5", "0.5", "0.2", "0.2">>,
               <<"0", "1.5", "0.5", "0.2", "0.2">> }
NoLabel == [state |-> "missing", lines |-> <<>>]
LabelChoices(nl) ==
    { NoLabel, [state |-> "unreadable", lines |-> <<>>] } \cup
    { [state |-> "ok", lines |-> l] : l \in SeqsUpTo(TreeLines, nl) }
\* An image of a split directory: a .jpg with any label file, or a .bmp
\* without one.
ImageChoices(nl) ==
    { [ext |-> "jpg", label |-> lb] : lb \in LabelChoices(nl) } \cup
    { [ext |-> "bmp", label |-> NoLabel] }

RECURSIVE LinesIn(_)
LinesIn(images) ==
    IF images = <<>> THEN 0
    ELSE Len(Head(images).label.lines) + LinesIn(Tail(images))

\* The image directories with at most ni images and nl label lines.
RECURSIVE ImageSeqs(_, _)
ImageSeqs(ni, nl) ==
    IF ni = 0 THEN { <<>> }
    ELSE { <<>> } \cup
         UNION { { <<im>> \o rest
                     : rest \in ImageSeqs(ni - 1, nl - Len(im.label.lines)) }
                 : im \in ImageChoices(nl) }

\* A split of the descriptor: its key may be missing, its directory too.
SplitDirs(ni, nl) ==
    { [defined |-> FALSE, exists |-> FALSE, images |-> <<>>],
      [defined |-> TRUE, exists |-> FALSE, images |-> <<>>] } \cup
    { [defined |-> TRUE, exists |-> TRUE, images |-> s]
        : s \in ImageSeqs(ni, nl) }

\* The trees of k splits with at most ni images and nl label lines in all.
RECURSIVE Trees(_, _, _)
Trees(k, ni, nl) ==
    IF k = 0 THEN { <<>> }
    ELSE UNION { { <<d>> \o rest
                     : rest \in Trees(k - 1, ni - Len(d.images),
                                      nl - LinesIn(d.images)) }
                 : d \in SplitDirs(ni, nl) }

NoTree == [ k \in 1..3 |-> [defined |-> FALSE, exists |-> FALSE,
                            images |-> <<>>] ]

\* The files of a tree: every image of a directory that exists, and the
\* label file of an image when there is one.
FilesOf(tree) ==
    UNION { { <<"image", SplitOrder[k], i>>
                : i \in 1..Len(tree[k].images) } \cup
            { <<"label", SplitOrder[k], i>>
                : i \in { j \in 1..Len(tree[k].images) :
                            tree[k].images[j].label.state # "missing" } }
            : k \in 1..3 }

\* files are the files of the tree that exist.
VerifyIdle(yaml, tree, mode, task_type) ==
    [ pc |-> "idle", yaml |-> yaml, tree |-> tree, mode |-> mode,
      task_type |-> task_type, nc |-> <<>>, split |-> 1,
      invalid_data |-> <<>>, passed |-> FALSE,
      files |-> FilesOf(tree), delete_invalid |-> FALSE ]

\* verify_dataset_config up to its loop over the splits.  A descriptor that
\* cannot be read returns at once; data_cfg.get on None or on a list raises
\* AttributeError, which nothing catches.
VerifyStart ==
    /\ verify.pc = "idle"
    /\ verify' =
         LET y == verify.yaml
         IN  IF y.kind = "unreadable"
             THEN [verify EXCEPT !.pc = "returned", !.passed = FALSE,
                      !.invalid_data = << Record(<<>>, <<>>, "yaml") >>]
             ELSE IF y.kind # "mapping"
             THEN [verify EXCEPT !.pc = "raised"]
             ELSE [verify EXCEPT
                      !.pc = "scanning", !.nc = y.nc,
                      !.invalid_data =
                          IF y.names = <<>> \/ y.nc = <<>>
                             \/ Len(y.names[1]) # y.nc[1]
                          THEN << Record(<<>>, <<>>, "nc_names") >>
                          ELSE <<>>]
    /\ UNCHANGED <<splitVars, coco, conv, toolVars>>

\* One iteration of the loop over the splits.
VerifySplit ==
    /\ verify.pc = "scanning"
    /\ verify.split <= Len(SplitOrder)
    /\ LET split == SplitOrder[verify.split]
           d == verify.tree[verify.split]
           img_files == ImgFiles(d.images)
       IN  \E check_files \in CheckFiles(img_files, verify.mode) :
               verify' = [verify EXCEPT
                   !.split = @ + 1,
                   !.invalid_data = @ \o
                       (IF ~d.defined THEN <<>>
                        ELSE IF ~d.exists
                        THEN << Record(<<split>>, <<>>, "no_dir") >>
                        ELSE IF img_files = <<>>
                        THEN << Record(<<split>>, <<>>, "empty_dir") >>
                        ELSE CheckImages(d.images, check_files, 1, verify.nc,
                                         verify.task_type, split))]
    /\ UNCHANGED <<splitVars, coco, conv, toolVars>>

\* After the last split: passed = len(invalid_data) == 0.
VerifyReturn ==
    /\ verify.pc = "scanning"
    /\ verify.split > Len(SplitOrder)
    /\ verify' = [verify EXCEPT !.pc = "returned",
                                !.passed = (verify.invalid_data = <<>>)]
    /\ UNCHANGED <<splitVars, coco, conv, toolVars>>

\* ------------------------------ delete_invalid_files, yolo_validate.py
\* [img_path, label_path] of one record, image only
ItemPathsImageOnly(item) ==
    IF Len(item.image_path) = 2 THEN { <<"image">> \o item.image_path }
    ELSE {}

\* [img_path, label_path] of one record, as files of the tree.  The path of
\* a record about a split is a directory, which unlink() cannot remove; a
\* record about the descriptor holds None twice.
ItemPaths(item) ==
    (IF Len(item.image_path) = 2 THEN { <<"image">> \o item.image_path }
     ELSE {}) \cup
    (IF Len(item.label_path) = 2 THEN { <<"label">> \o item.label_path }
     ELSE {})

\* delete_invalid_files from the k-th record on: each path of a record that
\* exists is unlinked.
RECURSIVE DeleteInvalidFiles(_, _, _)
DeleteInvalidFiles(invalid_data_list, k, files) ==
    IF k > Len(invalid_data_list) THEN files
    ELSE DeleteInvalidFiles(invalid_data_list, k + 1,
                            files \ ItemPaths(invalid_data_list[k]))

\* main() of yolo_validate.py after verify_dataset_config returned: the
\* files of the records are deleted when validation failed and
\* --delete-invalid was given; verify_split_uniqueness then only reads.
DeleteInvalid ==
    /\ verify.pc = "returned"
    /\ \E delete_invalid \in BOOLEAN :
          verify' = [verify EXCEPT
              !.pc = "finished",
              !.delete_invalid = delete_invalid,
              !.files = IF ~verify.passed /\ delete_invalid
                           /\ verify.invalid_data # <<>>
                        THEN DeleteInvalidFiles(verify.invalid_data, 1, @)
                        ELSE @]
    /\ UNCHANGED <<splitVars, coco, conv, toolVars>>

\* --------------------------------------------- verify_split_uniqueness
\* The file names an image directory of a split may hold, and for each its
\* Path.suffix.lower() without the dot.
UniqNames == {"a.jpg", "b.JPG", "a.bmp", "c.tiff"}
SuffixLower ==
    ("a.jpg" :> "jpg") @@ ("b.JPG" :> "jpg") @@ ("a.bmp" :> "bmp") @@
    ("c.tiff" :> "tiff")

\* A split of the descriptor: its key may be missing, its directory too.
UniqDirs ==
    { [defined |-> FALSE, exists |-> FALSE, names |-> {}],
      [defined |-> TRUE, exists |-> FALSE, names |-> {}] } \cup
    { [defined |-> TRUE, exists |-> TRUE, names |-> N] : N \in SUBSET UniqNames }
UniqTrees == [1..3 -> UniqDirs]

UniqIdle(yaml, tree) ==
    [pc |-> "idle", yaml |-> yaml, tree |-> tree, result |-> FALSE]

\* split_imgs: for each split whose key is set and whose directory exists,
\* the names of its files with the suffix .jpg, .jpeg or .png.
SplitImgs(tree) ==
    [ k \in { j \in 1..3 : tree[j].defined /\ tree[j].exists } |->
        { n \in tree[k].names : SuffixLower[n] \in ValidatorSuffixes } ]

\* duplicates: the names that name_to_splits maps to more than one split.
Duplicates(split_imgs) ==
    { n \in UNION { split_imgs[k] : k \in DOMAIN split_imgs } :
        Cardinality({ k \in DOMAIN split_imgs : n \in split_imgs[k] }) > 1 }

\* verify_split_uniqueness.  A descriptor that cannot be read returns False;
\* data_cfg.get on None or on a list raises AttributeError.
VerifySplitUniqueness ==
    /\ uniq.pc = "idle"
    /\ uniq' =
         IF uniq.yaml = "unreadable"
         THEN [uniq EXCEPT !.pc = "returned", !.result = FALSE]
         ELSE IF uniq.yaml # "mapping"
         THEN [uniq EXCEPT !.pc = "raised"]
         ELSE [uniq EXCEPT !.pc = "returned",
                           !.result = (Duplicates(SplitImgs(uniq.tree)) = {})]
    /\ UNCHANGED <<splitVars, coco, conv, verify, request, logger>>

\* The datasets with images 1..n (n <= MaxImages), a label file for some of
\* them, and in each label file one of the class sets in contents.
Datasets(contents) ==
    UNION { UNION { { [n |-> n, classes |-> c] : c \in [L -> contents] }
                    : L \in SUBSET (1..n) }
            : n \in 0..MaxImages }

NoCall ==
    [ op |-> "none", via |-> "lib", status |-> "ok", seed |-> 0,
      ratios |-> <<0, 0, 0>>, files |-> <<>>, labels |-> {},
      shuffled |-> <<>>, lists |-> NoLists, sets |-> NoSets, results |-> <<>>,
      io |-> FALSE, yaml |-> FALSE ]

\* No conversion and no validation is set up.
NoConv == ConvIdle("voc", <<>>)
NoVerify ==
    VerifyIdle([kind |-> "unreadable", nc |-> <<>>, names |-> <<>>], NoTree,
               "FULL", "detection")

\* ------------------------------------------------------- DataConverter
\* The types the convert command accepts, and one it does not.
CliChoices == {"coco_to_yolo", "pascal_to_yolo", "labelme_to_yolo"}
ConversionTypes == CliChoices \cup {"yolo_to_coco"}

\* _register_converters: the keys of self._converters
Registered == {"coco_to_yolo"}

NoRequest == [pc |-> "idle", conversion_type |-> "", error |-> ""]

\* DataConverter.convert: a type that is not registered raises ValueError;
\* otherwise the registered converter's convert is entered.
DataConverterConvert ==
    /\ request.pc = "idle"
    /\ coco.pc = "idle"
    /\ \E conversion_type \in ConversionTypes :
          IF conversion_type \notin Registered
          THEN /\ request' = [pc |-> "rejected",
                              conversion_type |-> conversion_type,
                              error |-> "ValueError"]
               /\ coco' = coco
          ELSE /\ request' = [pc |-> "dispatched",
                              conversion_type |-> conversion_type,
                              error |-> ""]
               /\ CocoBegin
    /\ UNCHANGED <<splitVars, conv, verify, uniq, logger>>

\* ------------------------------------------------------- logging_utils
\* A log file is named by its prefix and the timestamp in its stem; the
\* timestamp "" stands for a stem with neither "-" nor "_", from which
\* rename_log_file reads no timestamp.
MaxSetups == 3
MaxRenames == 2
MaxAdds == 1
Timestamps == {"t1", "t2"}
AddedFiles == { <<"temp", "t1">>, <<"app", "">> }
NoPath == <<>>

\* A logger without handlers, and no log file on disk.  next numbers the
\* handler objects; history lists the calls made on the logger.
NoLogger ==
    [ handlers |-> <<>>, files |-> {}, next |-> 1, result |-> NoPath,
      history |-> <<>> ]

Calls(name) == Cardinality({ i \in DOMAIN logger.history :
                               logger.history[i] = name })
WithoutIndex(hs, i) == SubSeq(hs, 1, i - 1) \o SubSeq(hs, i + 1, Len(hs))
IndexOf(hs, id) == CHOOSE i \in DOMAIN hs : hs[i].id = id
FileHandlers(hs) == { i \in DOMAIN hs : hs[i].kind = "file" }

\* setup_logger, step 4: the loop removes the handler at position i of the
\* list it iterates over and goes on with position i + 1 of what is left.
RECURSIVE RemoveWhileIterating(_, _)
RemoveWhileIterating(hs, i) ==
    IF i > Len(hs) THEN hs
    ELSE RemoveWhileIterating(WithoutIndex(hs, i), i + 1)

\* setup_logger: the log file of this call, the removal loop, a new
\* FileHandler (which creates the file) and a new StreamHandler.
SetupLogger ==
    /\ Calls("setup") < MaxSetups
    /\ \E temp_log \in BOOLEAN, timestamp \in Timestamps :
          LET log_file == << IF temp_log THEN "temp" ELSE "general",
                             timestamp >>
              file_handler == [id |-> logger.next, kind |-> "file",
                               file |-> log_file]
              console_handler == [id |-> logger.next + 1, kind |-> "console",
                                  file |-> NoPath]
          IN  logger' = [logger EXCEPT
                  !.handlers = RemoveWhileIterating(@, 1)
                                   \o <<file_handler, console_handler>>,
                  !.files = @ \cup {log_file},
                  !.next = @ + 2,
                  !.result = NoPath,
                  !.history = Append(@, "setup")]
    /\ UNCHANGED <<splitVars, coco, conv, verify, uniq, request>>

\* yolo_rename_log.py: a FileHandler is added when the logger has none.
AddFileHandler ==
    /\ Calls("add") < MaxAdds
    /\ FileHandlers(logger.handlers) = {}
    /\ \E file \in AddedFiles :
          logger' = [logger EXCEPT
              !.handlers = Append(@, [id |-> logger.next, kind |-> "file",
                                      file |-> file]),
              !.files = @ \cup {file},
              !.next = @ + 1,
              !.result = NoPath,
              !.history = Append(@, "add")]
    /\ UNCHANGED <<splitVars, coco, conv, verify, uniq, request>>

\* The name rename_log_file gives the file: the directory's name, the
\* timestamp of the old name and the model's name.
NewLogFile(old_log_file) == <<"train1", old_log_file[2]>>

\* The loop of rename_log_file over the copy of the handlers, from its k-th
\* entry on.  lg is the logger as the loop has left it so far.
RECURSIVE RenameLoop(_, _, _, _)
RenameLoop(copy, k, lg, rename_ok) ==
    IF k > Len(copy)
    THEN [lg EXCEPT !.result = NoPath]
    ELSE LET handler == copy[k]
             old_log_file == handler.file
             new_log_file == NewLogFile(old_log_file)
             removed == [lg EXCEPT
                 !.handlers = WithoutIndex(@, IndexOf(@, handler.id))]
         IN  IF handler.kind # "file" \/ old_log_file[2] = ""
             THEN RenameLoop(copy, k + 1, lg, rename_ok)
             ELSE IF old_log_file \notin lg.files
             THEN RenameLoop(copy, k + 1, removed, rename_ok)
             ELSE IF ~rename_ok
             THEN [removed EXCEPT
                      !.handlers = Append(@, [id |-> lg.next, kind |-> "file",
                                              file |-> old_log_file]),
                      !.next = @ + 1,
                      !.result = old_log_file]
             ELSE [removed EXCEPT
                      !.handlers = Append(@, [id |-> lg.next, kind |-> "file",
                                              file |-> new_log_file]),
                      !.files = (@ \ {old_log_file}) \cup {new_log_file},
                      !.next = @ + 1,
                      !.result = new_log_file]

\* rename_log_file; Path.rename succeeds or raises OSError.
RenameLogFile ==
    /\ Calls("rename") < MaxRenames
    /\ \E rename_ok \in BOOLEAN :
          logger' = [ RenameLoop(logger.handlers, 1, logger, rename_ok)
                      EXCEPT !.history = Append(@, "rename") ]
    /\ UNCHANGED <<splitVars, coco, conv, verify, uniq, request>>

NoUniq ==
    UniqIdle("unreadable",
             [k \in 1..3 |-> [defined |-> FALSE, exists |-> FALSE, names |-> {}]])
ToolsIdle ==
    /\ descriptor = NoDescriptor
    /\ uniq = NoUniq
    /\ request = NoRequest
    /\ logger = NoLogger

\* The generator is not drawn from before a DatasetSplitter is constructed,
\* which seeds it; its state before that is of no consequence.
InitWith(contents) ==
    /\ dataset \in Datasets(contents)
    /\ rng = 0
    /\ instances = {}
    /\ out = EmptyOut
    /\ call = NoCall
    /\ coco = CocoIdle
    /\ conv = NoConv
    /\ verify = NoVerify
    /\ ToolsIdle

\* split_by_ratio never opens a label file: one content stands for all.
Init == InitWith({{0}})

Next ==
    \/ NewSplitter
    \/ SplitByRatio
    \/ CliSplitRatio

Spec == Init /\ [][Next]_vars

\* Ratio splits of one dataset into one output directory; the images have
\* no label files.
InitRepeat ==
    /\ Init
    /\ Labelled = {}

NextRepeat ==
    \/ NewSplitter
    \/ SplitIntoSame

SpecRepeat == InitRepeat /\ [][NextRepeat]_vars

\* The class-balanced split, over label files with every content.
InitClass == InitWith(ClassSetChoices)

NextClass ==
    \/ NewSplitter
    \/ SplitByClass
    \/ CliSplitClass

SpecClass == InitClass /\ [][NextClass]_vars

\* A COCO conversion.
InitCoco ==
    /\ dataset = [n |-> 0, classes |-> <<>>]
    /\ rng = 0
    /\ instances = {}
    /\ out = EmptyOut
    /\ call = NoCall
    /\ coco = CocoIdle
    /\ conv = NoConv
    /\ verify = NoVerify
    /\ ToolsIdle

NextCoco ==
    \/ CocoStart
    \/ LoadFile
    \/ WriteLabels

SpecCoco == InitCoco /\ [][NextCoco]_vars

\* A COCO conversion of files whose boxes and image sizes vary.
NextBox ==
    \/ CocoStart
    \/ LoadBoxFile
    \/ WriteLabels

SpecBox == InitCoco /\ [][NextBox]_vars

\* A request to DataConverter.convert and the conversion it starts.
NextDispatch ==
    \/ DataConverterConvert
    \/ LoadBoxFile
    \/ WriteLabels

SpecDispatch == InitCoco /\ [][NextDispatch]_vars

\* A Pascal VOC or LabelMe conversion of any directory.
InitConv ==
    /\ dataset = [n |-> 0, classes |-> <<>>]
    /\ rng = 0
    /\ instances = {}
    /\ out = EmptyOut
    /\ call = NoCall
    /\ coco = CocoIdle
    /\ conv \in UNION { { ConvIdle(kind, dir)
                             : dir \in ConvDirs(kind, MaxFiles, MaxAnnotations) }
                         : kind \in ConvKinds }
    /\ verify = NoVerify
    /\ ToolsIdle

NextConv ==
    \/ ConvStart
    \/ ConvFile
    \/ ConvFinish

SpecConv == InitConv /\ [][NextConv]_vars

\* The calls that may find nothing to work on: the splits of a directory
\* with at most one image, the conversions of a directory with no file or
\* with one file without annotations.
InitFailFast ==
    /\ dataset \in { d \in Datasets({{0}}) : d.n <= 1 }
    /\ rng = 0
    /\ instances = {}
    /\ out = EmptyOut
    /\ call = NoCall
    /\ coco = CocoIdle
    /\ conv \in { ConvIdle(kind, dir) :
                     kind \in ConvKinds,
                     dir \in { <<>>, << [ok |-> TRUE, annotations |-> <<>>] >> } }
    /\ verify = NoVerify
    /\ ToolsIdle

NextFailFast ==
    \/ NewSplitter
    \/ SplitByRatio
    \/ SplitByClass
    \/ CocoStart
    \/ ConvStart

SpecFailFast == InitFailFast /\ [][NextFailFast]_vars

\* verify_dataset_config over every descriptor and tree.  A descriptor that
\* is no mapping is never scanned, so one tree stands for all.
InitVerify ==
    /\ ToolsIdle
    /\ dataset = [n |-> 0, classes |-> <<>>]
    /\ rng = 0
    /\ instances = {}
    /\ out = EmptyOut
    /\ call = NoCall
    /\ coco = CocoIdle
    /\ conv = NoConv
    /\ verify \in
         { VerifyIdle(y, t, m, tt) :
             y \in YamlMappings, t \in Trees(3, MaxChecked, MaxLines),
             m \in {"FULL", "SAMPLE"},
             tt \in {"detection", "segmentation"} }
         \cup
         { VerifyIdle(y, NoTree, "FULL", "detection") : y \in YamlOthers }

NextVerify ==
    \/ VerifyStart
    \/ VerifySplit
    \/ VerifyReturn

SpecVerify == InitVerify /\ [][NextVerify]_vars

\* The first token of a line and its coordinate tokens.
ClassTokens == {"0", "1", "-1", "x", "1.0"}
CoordTokens == {"0.5", "0.2", "1.5", "1", "0", "-0.1", "x"}
\* The lines of five tokens, those short of the last token and those with
\* a sixth.
LineChoices ==
    LET five == { <<c>> \o xs : c \in ClassTokens, xs \in [1..4 -> CoordTokens] }
    IN  five \cup { SubSeq(l, 1, 4) : l \in five }
             \cup { Append(l, "0.5") : l \in five }

\* A detection tree of one image whose label file holds one line; the
\* descriptor has an integer nc and as many names.
LineTree(line) ==
    [NoTree EXCEPT ![1] =
        [ defined |-> TRUE, exists |-> TRUE,
          images |-> << [ext |-> "jpg",
                         label |-> [state |-> "ok", lines |-> <<line>>]] >> ]]

InitLine ==
    /\ ToolsIdle
    /\ dataset = [n |-> 0, classes |-> <<>>]
    /\ rng = 0
    /\ instances = {}
    /\ out = EmptyOut
    /\ call = NoCall
    /\ coco = CocoIdle
    /\ conv = NoConv
    /\ verify \in
         { VerifyIdle([kind |-> "mapping", nc |-> <<Len(names)>>,
                       names |-> <<names>>],
                      LineTree(line), "FULL", "detection") :
             names \in { <<"cyst">>, <<"cyst", "tumor">> },
             line \in LineChoices }

SpecLine == InitLine /\ [][NextVerify]_vars

\* Nothing but the tools below is set up.
BaseIdle ==
    /\ dataset = [n |-> 0, classes |-> <<>>]
    /\ rng = 0
    /\ instances = {}
    /\ out = EmptyOut
    /\ call = NoCall
    /\ coco = CocoIdle
    /\ conv = NoConv
    /\ verify = NoVerify
    /\ descriptor = NoDescriptor
    /\ request = NoRequest
    /\ logger = NoLogger

\* The split CLI on a directory of at most one image, with every state of
\* the three class files.
InitYaml ==
    /\ dataset \in { d \in Datasets({{0}}) : d.n <= 1 }
    /\ rng = 0
    /\ instances = {}
    /\ out = EmptyOut
    /\ call = NoCall
    /\ coco = CocoIdle
    /\ conv = NoConv
    /\ verify = NoVerify
    /\ uniq = NoUniq
    /\ request = NoRequest
    /\ logger = NoLogger
    /\ descriptor \in
         { [NoDescriptor EXCEPT !.classes = c, !.root = r, !.labels = l] :
             c \in ClassFiles(<<"cyst">>),
             r \in ClassFiles(<<"cyst", "tumor", "polyp">>),
             l \in ClassFiles(<<"tumor">>) }

NextYaml ==
    \/ CliSplitRatio
    \/ CliSplitClass

SpecYaml == InitYaml /\ [][NextYaml]_vars

\* The validation CLI in FULL mode on detection trees of a train and a val
\* split, with a descriptor whose nc and names agree or not.
InitDelete ==
    /\ ToolsIdle
    /\ dataset = [n |-> 0, classes |-> <<>>]
    /\ rng = 0
    /\ instances = {}
    /\ out = EmptyOut
    /\ call = NoCall
    /\ coco = CocoIdle
    /\ conv = NoConv
    /\ verify \in
         { VerifyIdle(y, t, "FULL", "detection") :
             y \in { m \in YamlMappings : m.nc # <<>> },
             t \in { Append(u, NoTree[3])
                        : u \in Trees(2, MaxChecked, MaxLines) } }

NextDelete ==
    \/ VerifyStart
    \/ VerifySplit
    \/ VerifyReturn
    \/ DeleteInvalid

SpecDelete == InitDelete /\ [][NextDelete]_vars

\* verify_split_uniqueness over every descriptor and tree.
InitUnique ==
    /\ BaseIdle
    /\ uniq \in { UniqIdle("mapping", t) : t \in UniqTrees } \cup
                { UniqIdle(y, NoUniq.tree) : y \in {"unreadable", "empty", "list"} }

NextUnique == VerifySplitUniqueness

SpecUnique == InitUnique /\ [][NextUnique]_vars

\* A logger set up, given a handler and renamed, in any order.
InitLog ==
    /\ BaseIdle
    /\ uniq = NoUniq

NextLog ==
    \/ SetupLogger
    \/ AddFileHandler
    \/ RenameLogFile

SpecLog == InitLog /\ [][NextLog]_vars

\* ========================================================== the claims
RatioCallOk == call.op = "ratio" /\ call.status = "ok"
NonNegative(r) == r[1] >= 0 /\ r[2] >= 0 /\ r[3] >= 0
InputCount == Len(call.files)
\* floor(n * ratio)
Floor(n, ratio) == (n * ratio) \div RatioUnit
Occurrences(s, x) == Cardinality({ i \in 1..Len(s) : s[i] = x })
AllAssigned == call.lists.train \o call.lists.val \o call.lists.test

\* C1: in every accepted split_by_ratio call the lists train, val and test
\* are pairwise disjoint, their union is the set of input image files, and
\* each input image occurs exactly once in them.
C1_RatioPartition ==
    RatioCallOk =>
        /\ \A a, b \in SplitNames : a # b => call.sets[a] \cap call.sets[b] = {}
        /\ Range(AllAssigned) = Range(call.files)
        /\ \A f \in Range(call.files) : Occurrences(AllAssigned, f) = 1

CutAt(c1, c2) ==
    /\ call.lists.train = SubSeq(call.shuffled, 1, c1)
    /\ call.lists.val = SubSeq(call.shuffled, c1 + 1, c2)
    /\ call.lists.test = SubSeq(call.shuffled, c2 + 1, InputCount)

\* C3 as stated: the cuts are at floor(N*train) and floor(N*(train+val)).
C3_CutsAtSumOfRatios ==
    (RatioCallOk /\ NonNegative(call.ratios)) =>
        CutAt(Floor(InputCount, call.ratios[1]),
              Floor(InputCount, call.ratios[1] + call.ratios[2]))

\* C3 as amended: for non-negative ratios the cuts are at floor(N*train) and
\* at floor(N*train) + floor(N*val); train is the prefix before the first,
\* val the segment between the two, test everything after the second.
C3_CutsAtSumOfCounts ==
    (RatioCallOk /\ NonNegative(call.ratios)) =>
        CutAt(Floor(InputCount, call.ratios[1]),
              Floor(InputCount, call.ratios[1])
                + Floor(InputCount, call.ratios[2]))

C3_Witness ==
    /\ RatioCallOk
    /\ call.ratios = <<5000000, 5000000, 0>>
    /\ InputCount = 3
    /\ call.lists.val = <<call.shuffled[2]>>
    /\ call.lists.test = <<call.shuffled[3]>>

\* C4: a ratio split whose ratios do not sum to 1 within the tolerance, or
\* with a negative ratio, or with a train ratio that is not positive, ends in
\* an error with no output directory created and nothing copied or written.
C4_InvalidRatiosRejected ==
    (call.op = "ratio"
       /\ \/ Abs(call.ratios[1] + call.ratios[2] + call.ratios[3] - RatioUnit)
               > Tolerance
          \/ ~NonNegative(call.ratios)
          \/ call.ratios[1] <= 0) =>
        /\ call.status = "error"
        /\ ~call.io
        /\ out = EmptyOut

\* C5: two split_by_ratio calls with the same seed, the same input list and
\* the same ratios assign every image to the same split; stated of one call
\* and the next.
C5_SameSeedSameSplit ==
    [][ ( /\ RatioCallOk
          /\ call'.op = "ratio" /\ call'.status = "ok"
          /\ call'.seed = call.seed
          /\ call'.files = call.files
          /\ call'.ratios = call.ratios )
        => call'.sets = call.sets ]_vars

\* C8: split_by_ratio copies every image of a split into the split's images
\* directory, the label of exactly those that have a label file, raises no
\* error for a missing label, and reports per non-empty split the split size
\* as 'images' and the number of its images with a label file as 'labels'.
C8_LabelsOptional ==
    /\ RatioCallOk =>
        /\ DOMAIN call.results = { sp \in SplitNames : call.lists[sp] # <<>> }
        /\ \A sp \in DOMAIN call.results :
              /\ Range(call.lists[sp]) \subseteq out.images[sp]
              /\ out.labels[sp] =
                    { f \in Range(call.lists[sp]) : f \in call.labels }
              /\ call.results[sp].images = Len(call.lists[sp])
              /\ call.results[sp].labels =
                    Cardinality({ i \in 1..Len(call.lists[sp]) :
                                    call.lists[sp][i] \in call.labels })
    /\ (call.op = "ratio" /\ call.via = "lib" /\ call.status = "error") =>
          (~RatioSumOk(call.ratios) \/ call.files = <<>>)

C8_Witness ==
    /\ RatioCallOk
    /\ \E sp \in DOMAIN call.results :
          /\ call.results[sp].images = 2
          /\ call.results[sp].labels = 1
          /\ \E f \in out.images[sp] : f \notin call.labels

ClassCallOk == call.op = "class" /\ call.status = "ok"

\* C6: after split_by_class every input label file stem is in exactly one of
\* the sets train, val, test handed to the copy step.
C6_ClassPartition ==
    ClassCallOk =>
        /\ \A a, b \in SplitNames : a # b => call.sets[a] \cap call.sets[b] = {}
        /\ call.sets.train \cup call.sets.val \cup call.sets.test = call.labels

\* C7: after a successful split_by_ratio or split_by_class the output
\* directory holds a manifest with the seed, the ratios and the counts.
C7_ManifestAfterSplit ==
    (call.op \in {"ratio", "class"} /\ call.status = "ok") =>
        /\ out.manifest.written
        /\ out.manifest.seed = call.seed
        /\ out.manifest.ratios = call.ratios
        /\ out.manifest.counts.total = Len(call.files)

\* ------------------------------------------------------------- COCO merge
Merging == coco.pc \in {"loading", "done"}
\* A step that merged one more file.
Loaded == coco'.loaded = coco.loaded + 1
FirstIndex(cats, name) ==
    CHOOSE k \in 1..Len(cats) :
        /\ cats[k].name = name
        /\ \A j \in 1..(k - 1) : cats[j].name # name
MergedNames == { coco.categories[i].name : i \in 1..Len(coco.categories) }

C9_DistinctSequential ==
    Merging =>
        /\ \A i, j \in 1..Len(coco.categories) :
              i # j => coco.categories[i].name # coco.categories[j].name
        /\ \A i \in 1..Len(coco.categories) : coco.categories[i].id = i - 1
        /\ DOMAIN coco.category_id_mapping = MergedNames
        /\ \A i \in 1..Len(coco.categories) :
              coco.category_id_mapping[coco.categories[i].name] = i - 1

C9_FirstAppearanceKept ==
    Loaded =>
        LET old == Len(coco.categories)
            new == Len(coco'.categories)
            cats == coco'.file.categories
        IN  /\ old <= new
            /\ SubSeq(coco'.categories, 1, old) = coco.categories
            /\ { coco'.categories[i].name : i \in (old + 1)..new } =
                  { cats[k].name : k \in 1..Len(cats) } \ MergedNames
            /\ \A i, j \in (old + 1)..new :
                  i < j => FirstIndex(cats, coco'.categories[i].name)
                             < FirstIndex(cats, coco'.categories[j].name)
            /\ \A name \in DOMAIN coco.category_id_mapping :
                  /\ name \in DOMAIN coco'.category_id_mapping
                  /\ coco'.category_id_mapping[name] =
                        coco.category_id_mapping[name]

\* C9: after each merged file the category list has pairwise distinct names
\* and the ids 0..k-1 in the order in which the names first appeared, and a
\* later entry or file never changes the id a name has.
C9_CategoryIds == []C9_DistinctSequential /\ [][C9_FirstAppearanceKept]_vars

C9_Witness ==
    /\ coco.pc = "loading" /\ coco.loaded = 2
    /\ Len(coco.categories) = 2
    /\ Len(coco.file.categories) = 2
    /\ coco.file.categories[1].name = coco.categories[1].name
    /\ coco.file.categories[1].id # 1
    /\ coco.file.categories[2].name = coco.categories[2].name

\* The categories of a file that an original category_id denotes.
Denoted(cats, id) ==
    { k \in 1..Len(cats) :
        cats[k].id = id /\ \A j \in 1..(k - 1) : cats[j].id # id }
Matched(ann) == Denoted(coco.file.categories, ann.category_id) # {}
\* The merged annotations that came from the file read last.
FromLastFile ==
    LET Mine(a) == a.file = coco.loaded
    IN  SelectSeq(coco.annotations, Mine)

C10_OwnFileCategory ==
    (Merging /\ coco.loaded >= 1) =>
        /\ \A i \in 1..Len(FromLastFile) :
              \E k \in Denoted(coco.file.categories, FromLastFile[i].original) :
              \E c \in 1..Len(coco.categories) :
                  /\ coco.categories[c].name = coco.file.categories[k].name
                  /\ coco.categories[c].id = FromLastFile[i].category_id
        /\ [ i \in 1..Len(FromLastFile) |-> FromLastFile[i].original ] =
              [ i \in 1..Len(SelectSeq(coco.file.annotations, Matched)) |->
                  SelectSeq(coco.file.annotations, Matched)[i].category_id ]

C10_LinesCarryMergedId ==
    coco.pc = "done" =>
        /\ \A f \in DOMAIN coco.labels : \A i \in 1..Len(coco.labels[f]) :
              coco.labels[f][i].class_id =
                  coco.annotations[coco.labels[f][i].annotation].category_id
        /\ \A k \in 1..Len(coco.annotations) :
              (\E i \in 1..Len(coco.images) :
                   coco.images[i].id = coco.annotations[k].image_id)
              => \E l \in Lines(coco.labels) : l.annotation = k

C10_MergedKept ==
    Loaded =>
        /\ Len(coco.annotations) <= Len(coco'.annotations)
        /\ SubSeq(coco'.annotations, 1, Len(coco.annotations)) = coco.annotations

\* C10: a kept annotation carries, also on its label line, the merged id of
\* the name its original category_id denotes among the categories of its own
\* file; an annotation whose category_id matches none of them is dropped.
C10_AnnotationIds ==
    /\ [](C10_OwnFileCategory /\ C10_LinesCarryMergedId)
    /\ [][C10_MergedKept]_vars

C10_Witness ==
    /\ coco.pc = "done"
    /\ Len(coco.annotations) = 2
    /\ coco.annotations[1].file = 1 /\ coco.annotations[2].file = 2
    /\ coco.annotations[1].original = coco.annotations[2].original
    /\ coco.annotations[1].category_id # coco.annotations[2].category_id
    /\ coco.converted = 2

\* -------------------------------------------------- explicit class mapping
\* C11: with a class mapping supplied, the class id on every label line is
\* the id the mapping gives to the label of the line's annotation.  (Here
\* for the COCO conversion, where the label of a merged annotation is the
\* name of its merged category.)
C11_MappingIdsWritten ==
    (coco.pc = "done" /\ coco.class_mapping # <<>>) =>
        \A f \in DOMAIN coco.labels : \A i \in 1..Len(coco.labels[f]) :
            LET line == coco.labels[f][i]
                ann == coco.annotations[line.annotation]
                name == coco.categories[ann.category_id + 1].name
                given == AsDict(coco.class_mapping)
            IN  name \in DOMAIN given => line.class_id = given[name]

\* ------------------------------------------------ Pascal VOC and LabelMe
ConvDone == conv.pc = "done"
Explicit == conv.class_mapping # <<>>
Parsed == { i \in 1..Len(conv.dir) : conv.dir[i].ok }
\* The annotations (file, position) of the parsed files.
ConvAnnotations ==
    UNION { { <<i, k>> : k \in 1..Len(conv.dir[i].annotations) }
            : i \in Parsed }
LabelOf(a) == conv.dir[a[1]].annotations[a[2]].label
Unknown(a) == LabelOf(a) \notin DOMAIN conv.category_mapping
HasLine(a) ==
    /\ a[1] \in DOMAIN conv.labels
    /\ \E j \in 1..Len(conv.labels[a[1]]) :
           conv.labels[a[1]][j].annotation = a[2]
\* Annotations with a known label that the run passes over for another
\* reason: a difficult object, a rectangle that has not two points.
OtherwiseSkipped(a) ==
    LET ann == conv.dir[a[1]].annotations[a[2]]
    IN  /\ ~Unknown(a)
        /\ IF conv.kind = "voc"
           THEN ~conv.include_difficult /\ ann.difficult # 0
           ELSE ann.points # 2

\* C12: in a VOC or LabelMe run with an explicit mapping, an annotation
\* whose label is no key of the mapping gets no label line and adds exactly
\* one to skipped_annotations.
C12_UnknownSkippedAndCounted ==
    (ConvDone /\ Explicit) =>
        /\ \A a \in ConvAnnotations : Unknown(a) => ~HasLine(a)
        /\ conv.skipped_annotations =
              Cardinality({ a \in ConvAnnotations : Unknown(a) })
              + Cardinality({ a \in ConvAnnotations : OtherwiseSkipped(a) })

ConvLines == UNION { Range(conv.labels[f]) : f \in DOMAIN conv.labels }

\* C13: after a run, the zero-based line number of a label in classes.txt
\* is the class id the run wrote for that label in the label files.
C13_ClassesTxtLineIsId ==
    ConvDone =>
        \A line \in ConvLines :
            /\ line.class_id + 1 \in 1..Len(conv.classes_txt)
            /\ conv.classes_txt[line.class_id + 1] = line.label

\* C14: every image record of the input gets a label file, an empty one
\* when none of its annotations is retained.  (Here: every images[] entry
\* of a COCO conversion.)
C14_LabelFileForEveryImage ==
    coco.pc = "done" =>
        \A i \in 1..Len(coco.images) :
            coco.images[i].file_name \in DOMAIN coco.labels

\* The retained annotations of the image that the i-th JSON file describes.
OwnAnnotations(i) ==
    LET all == [ k \in 1..Len(coco.annotations) |-> k ]
        Mine(k) == /\ coco.annotations[k].file = i
                   /\ coco.annotations[k].image_id = coco.images[i].id
    IN  SelectSeq(all, Mine)
LinesOfImage(i) ==
    IF coco.images[i].file_name \in DOMAIN coco.labels
    THEN coco.labels[coco.images[i].file_name]
    ELSE <<>>

\* C15: after a COCO conversion the label file of each image holds exactly
\* one line per retained annotation of that image and no line of another
\* image; converted_annotations is the number of lines in all and
\* converted_label_files the number of label files.
C15_OneLinePerAnnotation ==
    coco.pc = "done" =>
        /\ \A i \in 1..Len(coco.images) :
              [ j \in 1..Len(LinesOfImage(i)) |-> LinesOfImage(i)[j].annotation ]
                  = OwnAnnotations(i)
        /\ coco.converted = Cardinality(Lines(coco.labels))
        /\ coco.converted_label_files = Cardinality(DOMAIN coco.labels)

\* C16: when exactly one of several input files cannot be parsed, whatever
\* its place in the listing, the conversion completes and writes the label
\* files of all the other files.
C16_OneBadFileTolerated ==
    (/\ Len(conv.dir) >= 2
     /\ Cardinality({ i \in 1..Len(conv.dir) : ~conv.dir[i].ok }) = 1
     /\ conv.pc # "idle") =>
        /\ conv.pc # "failed"
        /\ ConvDone => Parsed \subseteq DOMAIN conv.labels

\* ---------------------------------------------------------- empty inputs
\* C17: a conversion or a split whose input directory is missing or holds
\* no file of the expected kind fails before it creates an output directory,
\* a temporary directory or an output file.
C17_NoInputNoOutput ==
    /\ (call.op = "ratio" /\ call.via = "lib" /\ call.files = <<>>) =>
          (call.status = "error" /\ ~call.io /\ out = EmptyOut)
    /\ (call.op = "class" /\ call.labels = {}) =>
          (call.status = "error" /\ ~call.io /\ out = EmptyOut)
    /\ (coco.pc # "idle" /\ coco.total = 0) =>
          /\ coco.pc = "failed"
          /\ ~coco.out_dir /\ ~coco.temp
          /\ coco.labels = <<>> /\ coco.classes_txt = <<>>
    /\ (conv.pc # "idle" /\ conv.dir = <<>>) =>
          /\ conv.pc = "failed"
          /\ ~conv.out_dir /\ ~conv.classes_file
          /\ conv.labels = <<>>

\* A ratio split of a directory whose only image has none of the listed
\* extensions, and both conversions of directories without a file.
C17_Witness ==
    /\ call.op = "ratio" /\ call.status = "error" /\ call.files = <<>>
    /\ dataset.n = 1 /\ RatioSumOk(call.ratios)
    /\ coco.pc = "failed" /\ coco.total = 0
    /\ conv.pc = "failed" /\ conv.dir = <<>>

\* ------------------------------------------------------ dataset validation
Returned == verify.pc = "returned"
Scanned == Returned /\ verify.yaml.kind = "mapping"
\* The image directories the descriptor names and that exist.
ScannedSplits ==
    { k \in 1..Len(SplitOrder) :
        verify.tree[k].defined /\ verify.tree[k].exists }
RecordsOf(k, i) ==
    LET Mine(r) == r.image_path = <<SplitOrder[k], i>>
    IN  SelectSeq(verify.invalid_data, Mine)

IsClassId(token, n) ==
    /\ token \in DOMAIN IntValue
    /\ 0 <= IntValue[token] /\ IntValue[token] < n
IsUnitCoordinate(token) ==
    /\ token \in DOMAIN FloatValue
    /\ 0 <= FloatValue[token] /\ FloatValue[token] <= One
\* A detection line that is to be flagged under nc = n.
Offending(parts, n) ==
    \/ Len(parts) # 5
    \/ ~IsClassId(parts[1], n)
    \/ \E i \in 2..Len(parts) : ~IsUnitCoordinate(parts[i])
OffendingLines(lines, n) ==
    { j \in 1..Len(lines) : Offending(lines[j], n) }

ExampleFlagged == <<"0", "1.5", "0.5", "0.2", "0.2">>
ExampleAccepted == <<"0", "0.5", "0.5", "0.2", "0.2">>

\* Every label file that was read has one record per offending line.
LinesFlagged ==
    \A k \in ScannedSplits : \A i \in 1..Len(verify.tree[k].images) :
        LET img == verify.tree[k].images[i]
        IN  (img.ext \in ValidatorSuffixes /\ img.label.state = "ok") =>
                Len(RecordsOf(k, i)) =
                    Cardinality(OffendingLines(img.label.lines, verify.nc[1]))

\* C18: for task type 'detection' and an integer nc, a violation is recorded
\* for a checked label line iff the line has not exactly 5 tokens, or its
\* first token is no integer in [0, nc), or a coordinate is no number in
\* [0,1]; '0 1.5 0.5 0.2 0.2' is flagged and '0 0.5 0.5 0.2 0.2' is not.
C18_DetectionLineFlaggedIff ==
    (Scanned /\ verify.task_type = "detection" /\ verify.nc # <<>>) =>
        /\ LinesFlagged
        /\ \A k \in ScannedSplits : \A i \in 1..Len(verify.tree[k].images) :
              LET lines == verify.tree[k].images[i].label.lines
              IN  /\ lines = <<ExampleFlagged>> => RecordsOf(k, i) # <<>>
                  /\ lines = <<ExampleAccepted>> => RecordsOf(k, i) = <<>>

\* The line '0 1.5 0.5 0.2 0.2' was checked and one record was made for it.
C18_Witness ==
    /\ Scanned
    /\ verify.task_type = "detection" /\ verify.nc = <<1>>
    /\ verify.tree[1].images[1].label.lines = <<ExampleFlagged>>
    /\ Len(verify.invalid_data) = 1
    /\ verify.invalid_data[1].error_message = "coords"

\* C19: in FULL mode there is an entry for every image of every split that
\* has no label file and for every offending line of every label file, a
\* violation never ends the scan, and pass is reported iff there is no
\* entry.
C19_ExhaustiveScan ==
    (Scanned /\ verify.mode = "FULL") =>
        /\ \A k \in ScannedSplits : \A i \in 1..Len(verify.tree[k].images) :
              verify.tree[k].images[i].label.state = "missing" =>
                  RecordsOf(k, i) # <<>>
        /\ (verify.task_type = "detection" /\ verify.nc # <<>>) => LinesFlagged
        /\ verify.passed <=> (verify.invalid_data = <<>>)

\* C20: verify_dataset_config never raises, whatever the descriptor file.
C20_NeverRaises == verify.pc # "raised"

\* ---------------------------------------------------------------- C21
\* The splits whose image directory holds the file name n.
SplitsHolding(n) ==
    { k \in 1..3 : uniq.tree[k].defined /\ uniq.tree[k].exists
                   /\ n \in uniq.tree[k].names }

\* C21: with a readable descriptor, verify_split_uniqueness returns False
\* exactly when some image file name (jpg, jpeg, png, bmp or tiff, the types
\* the splitter copies) is present in the image directory of more than one
\* of the splits.
C21_FalseIffDuplicate ==
    (uniq.pc = "returned" /\ uniq.yaml = "mapping") =>
        (uniq.result = FALSE <=>
            \E n \in UniqNames :
                /\ SuffixLower[n] \in Range(DefaultExtensions)
                /\ Cardinality(SplitsHolding(n)) > 1)

\* ---------------------------------------------------------------- C22
\* The files the records of the run refer to.
Referenced ==
    UNION { ({ <<"image">> \o verify.invalid_data[r].image_path }
             \cup { <<"label">> \o verify.invalid_data[r].label_path })
            : r \in 1..Len(verify.invalid_data) }
Removed == FilesOf(verify.tree) \ verify.files

\* C22: a run of the validation CLI removes exactly the existing image and
\* label files its violation records refer to when --delete-invalid was given
\* and validation failed, and removes no file otherwise.
C22_RemovesExactlyReferenced ==
    /\ verify.files \subseteq FilesOf(verify.tree)
    /\ verify.pc = "finished" =>
          Removed = IF verify.delete_invalid /\ ~verify.passed
                    THEN Referenced \cap FilesOf(verify.tree)
                    ELSE {}
    /\ verify.pc # "finished" => Removed = {}

\* A failed validation with deletion opted into removed an image and left
\* another file in place.
C22_Witness ==
    /\ verify.pc = "finished"
    /\ verify.delete_invalid
    /\ ~verify.passed
    /\ \E f \in Removed : f[1] = "image"
    /\ verify.files # {}

\* ---------------------------------------------------------------- C23
ExplicitNames ==
    descriptor.classes.exists /\ descriptor.classes.readable
        /\ descriptor.classes.names # <<>>
\* The first of <output>/classes.txt, <output>/labels/classes.txt that exists.
Discovered ==
    IF descriptor.root.exists THEN descriptor.root ELSE descriptor.labels

AnnotationOf(line) == coco.annotations[line.annotation]
ImageOf(line) == ImageInfo(coco.images)[AnnotationOf(line).image_id]

\* C24: the four values of the label line of a COCO annotation with bbox
\* (x, y, w, h) on an image of size W x H are ((x + w/2)/W, (y + h/2)/H, w/W,
\* h/H), unclamped also outside [0,1]; bbox [10,10,20,20] on 100x100 gives
\* (0.2, 0.2, 0.2, 0.2) and [50,25,50,25] on 200x100 gives (0.375, 0.375,
\* 0.25, 0.25).
C24_CentreAndSizeUnclamped ==
    coco.pc = "done" =>
        \A line \in Lines(coco.labels) :
            LET bbox == AnnotationOf(line).bbox
                W == ImageOf(line).width
                H == ImageOf(line).height
            IN  /\ line.box[1] * 2 * W = (2 * bbox[1] + bbox[3]) * One
                /\ line.box[2] * 2 * H = (2 * bbox[2] + bbox[4]) * One
                /\ line.box[3] * W = bbox[3] * One
                /\ line.box[4] * H = bbox[4] * One
                /\ (bbox = <<10, 10, 20, 20>> /\ W = 100 /\ H = 100) =>
                       line.box = <<200000, 200000, 200000, 200000>>
                /\ (bbox = <<50, 25, 50, 25>> /\ W = 200 /\ H = 100) =>
                       line.box = <<375000, 375000, 250000, 250000>>

\* A conversion wrote a line with a value above 1 and a line with a value
\* below 0.
C24_Witness ==
    /\ coco.pc = "done"
    /\ \E line \in Lines(coco.labels) : \E i \in 1..4 : line.box[i] > One
    /\ \E line \in Lines(coco.labels) : \E i \in 1..4 : line.box[i] < 0

\* ---------------------------------------------------------------- C30
\* C30: whenever CocoToYoloConverter.convert raises after creating its
\* temporary directory, the directory and the label files in it no longer
\* exist, and the failure reaches the caller: a conversion whose file cannot
\* be read or whose line cannot be computed never ends as done.
C30_TempRemovedOnRaise ==
    /\ (coco.pc = "failed" /\ coco.out_dir) =>
           (~coco.temp /\ coco.labels = <<>>)
    /\ coco.pc = "done" =>
           /\ coco.file.ok
           /\ FirstFailing(coco.annotations, ImageInfo(coco.images)) = 0

\* A conversion raised after it had written label lines into the temporary
\* directory.
C30_Witness ==
    /\ coco.pc = "failed"
    /\ coco.out_dir
    /\ coco.discarded > 0

\* ---------------------------------------------------------------- C25
\* C25: DataConverter.convert hands a request of each type the convert
\* command accepts (coco_to_yolo, pascal_to_yolo, labelme_to_yolo) to a
\* converter, and rejects with ValueError exactly the other types.
C25_AcceptedTypesDispatched ==
    request.pc # "idle" =>
        (request.pc = "rejected" <=> request.conversion_type \notin CliChoices)

\* ---------------------------------------------------------------- C28
\* A step that is a call of rename_log_file.
IsRename == logger'.history = Append(logger.history, "rename")

\* C28: when the logger has a FileHandler before rename_log_file is called,
\* it has exactly one FileHandler when the call returns, the returned path is
\* that handler's file, and None is not returned.
C28_OneFileHandlerAfterRename ==
    [][ (IsRename /\ FileHandlers(logger.handlers) # {}) =>
            /\ Cardinality(FileHandlers(logger'.handlers)) = 1
            /\ logger'.result # NoPath
            /\ \A i \in FileHandlers(logger'.handlers) :
                   logger'.handlers[i].file = logger'.result ]_vars

\* ---------------------------------------------------------------- C29
OnlySetups ==
    /\ logger.history # <<>>
    /\ \A i \in DOMAIN logger.history : logger.history[i] = "setup"
Handlers(kind) == { i \in DOMAIN logger.handlers :
                      logger.handlers[i].kind = kind }

\* C29: after any number of setup_logger calls on a logger, the logger holds
\* exactly one file handler and exactly one console handler.
C29_OneHandlerOfEachKind ==
    OnlySetups =>
        /\ Cardinality(Handlers("file")) = 1
        /\ Cardinality(Handlers("console")) = 1

\* ---------------------------------------------------------------- C26
\* The image of the annotation's own source file: each file holds one image,
\* so the images of a finished merge are in the order of the files.
OwnImage(ann) == coco.images[ann.file]

\* C26: in a conversion that merges several JSON files, every annotation is
\* written to the label file of the image its image_id denotes in its own
\* source file, also when two files use one image id for different images.
C26_WrittenToOwnImage ==
    coco.pc = "done" =>
        \A stem \in DOMAIN coco.labels :
            \A j \in DOMAIN coco.labels[stem] :
                LET ann == coco.annotations[coco.labels[stem][j].annotation]
                IN  OwnImage(ann).id = ann.image_id =>
                        stem = OwnImage(ann).file_name

\* ---------------------------------------------------------------- C27
\* C27: after any sequence of successful ratio splits of one image set into
\* one output directory, no image is in the images directory of more than
\* one of train, val and test.
C27_RepeatedSplitsDisjoint ==
    (call.op = "ratio" /\ call.status = "ok") =>
        \A sp1 \in SplitNames : \A sp2 \in SplitNames \ {sp1} :
            out.images[sp1] \cap out.images[sp2] = {}

====
